---- MODULE Spec2Model ----
(***************************************************************************)
(* Model of the authenticated request gateway (createApiClient: request    *)
(* interceptor, response interceptor with token refresh and replay) and of *)
(* the route guard (middleware).                                           *)
(*                                                                         *)
(* Strings of the program that are only compared for equality are TLA+     *)
(* strings.  Texts that the program searches with String.includes or       *)
(* String.startsWith are sequences of chunks (words for messages, path     *)
(* pieces for paths), so that "contains" and "starts with" differ from     *)
(* "equals".  Response messages are strings or absent, as the backend      *)
(* contract of the spec describes them.                                    *)
(***************************************************************************)
EXTENDS Integers, Sequences, FiniteSets, TLC

\* ------------------------------------------------------------------ bounds

\* Counters of the history variables saturate at MaxCount ("MaxCount or more").
MaxCount == 2

\* Longest request path of the route guard, in chunks.
MaxPathLen == 3

\* ------------------------------------------------------------- cookie jar

\* Cookies.get(name) of a cookie that is not set (undefined).
Absent == "<absent>"

CookieNames == {"token", "refresh_token", "user_id"}

\* JavaScript truthiness of a string-or-undefined value: `if (token)`, `!oldToken`.
Truthy(v) == v # Absent /\ v # ""

\* Variant: the cookie is written only when it is not set yet (first writer wins).
CookiesSetOnce(jar, name, value) ==
    IF jar[name] = Absent THEN [jar EXCEPT ![name] = value] ELSE jar

\* Cookies.set(name, value)
CookiesSet(jar, name, value) == [jar EXCEPT ![name] = value]

\* Cookies.remove(name)
CookiesRemove(jar, name) == [jar EXCEPT ![name] = Absent]

\* ------------------------------------------------------- messages, answers

\* The auth-failure marker searched in a failed response's message.
AuthFailureMarker == <<"Unauthorized", "or", "invalid", "token">>

\* The marker searched in a failed refresh's message.
RefreshInvalidMarker == <<"Refresh", "token", "is", "invalid">>

\* String.prototype.includes: pat occurs in text as a contiguous part.
Includes(text, pat) ==
    \E i \in 0..(Len(text) - Len(pat)) : SubSeq(text, i + 1, i + Len(pat)) = pat

\* Authorization header value `Bearer ${token}`; <<>> is "no Authorization header".
NoHeader == <<>>
Bearer(token) == <<"Bearer", token>>

\* One shape for everything that settles a call: an HTTP answer (kind "success"
\* for 2xx, "error" for an error response), a transport failure without response
\* (kind "network"), an Error thrown by the interceptor itself (kind "thrown"),
\* or nothing yet (kind "nil").  hasMsg/msg: data.message; body: the rest of the
\* payload; jwt: data.jwtToken.
Answer(kind, status, hasMsg, msg, body, jwt) ==
    [kind |-> kind, status |-> status, hasMsg |-> hasMsg, msg |-> msg,
     body |-> body, jwt |-> jwt]

NilAnswer == Answer("nil", 0, FALSE, <<>>, "", Absent)

\* new Error("Missing token or userId for refresh")
MissingCredentialsError ==
    Answer("thrown", 0, FALSE, <<>>, "Missing token or userId for refresh", Absent)

\* new Error("Failed to retrieve new token")
NoNewTokenError ==
    Answer("thrown", 0, FALSE, <<>>, "Failed to retrieve new token", Absent)

\* Messages a backend answer to a request may carry.
RequestMessages ==
    { AuthFailureMarker,
      <<"Error:">> \o AuthFailureMarker,
      <<"Unauthorized">>,
      <<>> }

\* What the backend may answer to a dispatched request.
SuccessAnswers ==
    { Answer("success", 200, FALSE, <<>>, b, Absent) : b \in {"b1", "b2"} }
    \cup { Answer("success", 200, TRUE, AuthFailureMarker, "b1", Absent) }

ErrorAnswers ==
    { Answer("error", s, TRUE, m, "", Absent) : s \in {401, 500}, m \in RequestMessages }
    \cup { Answer("error", 401, FALSE, <<>>, "", Absent),
           Answer("error", 400, FALSE, <<>>, "", Absent),
           Answer("error", 400, TRUE, RefreshInvalidMarker, "", Absent),
           Answer("network", 0, FALSE, <<>>, "", Absent) }

\* Messages a failed refresh may carry.
RefreshMessages ==
    { RefreshInvalidMarker,
      <<"Error:">> \o RefreshInvalidMarker,
      <<"Server", "error">> }

\* What refreshToken() may settle with: resolved with a jwtToken, resolved with
\* none (missing or empty), rejected with an error response, or a transport failure.
RefreshAnswers ==
    { Answer("success", 200, FALSE, <<>>, "", j) : j \in {"n1", "n2", "", Absent} }
    \cup { Answer("error", s, TRUE, m, "", Absent) : s \in {400, 500}, m \in RefreshMessages }
    \cup { Answer("error", s, FALSE, <<>>, "", Absent) : s \in {400, 500} }
    \cup { Answer("network", 0, FALSE, <<>>, "", Absent) }

\* `error.response?.data?.message || ""`
ErrorMessage(e) ==
    IF e.kind \in {"success", "error"} /\ e.hasMsg THEN e.msg ELSE <<>>

\* `error.response?.status`, 0 standing for undefined.
ResponseStatus(e) ==
    IF e.kind \in {"success", "error"} THEN e.status ELSE 0

\* ------------------------------------------------------------------ state

\* The send() calls issued on one client instance.
Sends == {"s1", "s2"}

VARIABLES
    cookies,       \* the cookie jar: name -> value or Absent
    pc,            \* per send: "idle", "inflight", "refreshing", "resolved", "rejected"
    hdr,           \* per send: Authorization header of the request as last dispatched
    lastAns,       \* per send: the answer to the latest dispatch (NilAnswer while in flight)
    lastRefresh,   \* per send: how the latest refreshToken() call settled (NilAnswer while in flight)
    result,        \* per send: what the caller's promise settled with
    replays,       \* per send: number of apiClient(originalRequest) re-dispatches
    refreshCalls,  \* per send: number of refreshToken() calls
    navs,          \* per send: number of Router.push("/login") calls
    cookieWrites,  \* per send: number of Cookies.set / Cookies.remove calls
    gpc,           \* route guard: "request" (a request is arriving) or "decided"
    gpath,         \* route guard: request.nextUrl.pathname
    gtoken,        \* route guard: value of the request's token cookie, or Absent
    gdecision,     \* route guard: the decision for the request
    ghops,         \* route guard: redirects followed so far
    ipc,           \* identity client request: "idle", "inflight", "resolved", "rejected"
    ihdr,          \* identity client request: its Authorization header
    iresult,       \* identity client request: what the caller's promise settled with
    inavs          \* identity client request: number of Router.push("/login") calls

gatewayVars ==
    <<cookies, pc, hdr, lastAns, lastRefresh, result, replays, refreshCalls, navs,
      cookieWrites>>

guardVars == <<gpc, gpath, gtoken, gdecision, ghops>>

identityVars == <<ipc, ihdr, iresult, inavs>>

vars == <<gatewayVars, guardVars, identityVars>>

\* n more calls on a saturating counter.
Count(n, more) == IF n + more > MaxCount THEN MaxCount ELSE n + more

\* ------------------------------------------------- gateway: pure fragments

\* Request interceptor: attach `Bearer <token cookie>` when the cookie is truthy,
\* else leave the headers as they are.
RequestInterceptor(jar, headers) ==
    IF Truthy(jar["token"]) THEN Bearer(jar["token"]) ELSE headers

\* Variant: the fulfilled branch unwraps the payload, (response) => response.data
OnFulfilledData(response) == [response EXCEPT !.kind = "data", !.status = 0]

\* Response interceptor, fulfilled branch: (response) => response
OnFulfilled(response) == response

\* Variant: the commented-out status test is live, so any HTTP 401 starts a refresh.
IsAuthFailureByStatus(error) ==
    \/ ResponseStatus(error) = 401
    \/ Includes(ErrorMessage(error), AuthFailureMarker)

\* errorMessage.includes("Unauthorized or invalid token")
IsAuthFailure(error) == Includes(ErrorMessage(error), AuthFailureMarker)

\* Variant: the catch block tests the message only, not the status.
IsRefreshInvalidByMessage(refreshError) ==
    Includes(ErrorMessage(refreshError), RefreshInvalidMarker)

\* Variant: the catch block evicts on any error response, whatever its status.
IsRefreshInvalidAnyStatus(refreshError) ==
    \/ ResponseStatus(refreshError) >= 400
    \/ Includes(ErrorMessage(refreshError), RefreshInvalidMarker)

\* The catch block's test: status === 400 || message.includes("Refresh token is invalid")
IsRefreshInvalid(refreshError) ==
    \/ ResponseStatus(refreshError) = 400
    \/ Includes(ErrorMessage(refreshError), RefreshInvalidMarker)

\* The three Cookies.remove calls of the catch block.
Purge(jar) ==
    CookiesRemove(CookiesRemove(CookiesRemove(jar, "token"), "refresh_token"), "user_id")

\* !oldToken || !userId
MissingRefreshCredentials(jar) ==
    ~Truthy(jar["refresh_token"]) \/ ~Truthy(jar["user_id"])

\* if (!newAccessToken)
HasNewToken(refreshResponse) == Truthy(refreshResponse.jwt)

\* Variant: the replay is awaited inside the try block
\* (`return await apiClient(originalRequest)`), so its rejection reaches the catch.
ReplayRejectionCaughtWhenAwaited(r) == replays[r] >= 1

\* Whether the rejection of send r's dispatched request is caught by the catch
\* block of the handler that dispatched it.  Never: a first dispatch is outside any
\* handler, and a replay is returned, not awaited (`return apiClient(originalRequest)`),
\* so the try block has been left when the replay's promise rejects.
ReplayRejectionCaught(r) == FALSE

\* ------------------------------------------------------- gateway: actions

\* catch (refreshError) { ... }: purge and navigate when the refresh was rejected
\* as invalid, and reject with refreshError in every case.
CatchRefreshError(r, refreshError) ==
    /\ IF IsRefreshInvalid(refreshError)
       THEN /\ cookies' = Purge(cookies)
            /\ cookieWrites' = [cookieWrites EXCEPT ![r] = Count(@, 3)]
            /\ navs' = [navs EXCEPT ![r] = Count(@, 1)]
       ELSE UNCHANGED <<cookies, cookieWrites, navs>>
    /\ pc' = [pc EXCEPT ![r] = "rejected"]
    /\ result' = [result EXCEPT ![r] = refreshError]

\* apiClient(config): the request interceptor runs, the request is dispatched.
Send(r) ==
    /\ pc[r] = "idle"
    /\ hdr' = [hdr EXCEPT ![r] = RequestInterceptor(cookies, NoHeader)]
    /\ pc' = [pc EXCEPT ![r] = "inflight"]
    /\ UNCHANGED <<cookies, lastAns, lastRefresh, result, replays, refreshCalls,
                   navs, cookieWrites>>
    /\ UNCHANGED <<guardVars, identityVars>>

\* A 2xx answer arrives: the fulfilled branch hands it to the caller.
ResponseFulfilled(r) ==
    /\ pc[r] = "inflight"
    /\ \E response \in SuccessAnswers :
          /\ lastAns' = [lastAns EXCEPT ![r] = response]
          /\ result' = [result EXCEPT ![r] = OnFulfilled(response)]
    /\ pc' = [pc EXCEPT ![r] = "resolved"]
    /\ UNCHANGED <<cookies, hdr, lastRefresh, replays, refreshCalls, navs, cookieWrites>>
    /\ UNCHANGED <<guardVars, identityVars>>

\* A failure arrives: the rejected branch up to its first await or its return.
ResponseRejected(r) ==
    /\ pc[r] = "inflight"
    /\ \E error \in ErrorAnswers :
          /\ lastAns' = [lastAns EXCEPT ![r] = error]
          /\ IF IsAuthFailure(error)
             THEN IF MissingRefreshCredentials(cookies)
                  THEN /\ CatchRefreshError(r, MissingCredentialsError)
                       /\ UNCHANGED <<refreshCalls, lastRefresh>>
                  ELSE /\ pc' = [pc EXCEPT ![r] = "refreshing"]
                       /\ refreshCalls' = [refreshCalls EXCEPT ![r] = Count(@, 1)]
                       /\ lastRefresh' = [lastRefresh EXCEPT ![r] = NilAnswer]
                       /\ UNCHANGED <<cookies, result, navs, cookieWrites>>
             ELSE IF ReplayRejectionCaught(r)
                  THEN /\ CatchRefreshError(r, error)
                       /\ UNCHANGED <<refreshCalls, lastRefresh>>
                  ELSE /\ pc' = [pc EXCEPT ![r] = "rejected"]
                       /\ result' = [result EXCEPT ![r] = error]
                       /\ UNCHANGED <<cookies, refreshCalls, lastRefresh, navs,
                                      cookieWrites>>
    /\ UNCHANGED <<hdr, replays>>
    /\ UNCHANGED <<guardVars, identityVars>>

\* refreshToken() settles: the rest of the rejected branch.  On a new token the
\* cookie is written, the header set, and the original request dispatched again
\* through the same client (so through the same interceptors; the request carries
\* no mark of having been replayed).
RefreshSettled(r) ==
    /\ pc[r] = "refreshing"
    /\ \E answer \in RefreshAnswers :
          /\ lastRefresh' = [lastRefresh EXCEPT ![r] = answer]
          /\ IF answer.kind = "success"
             THEN IF HasNewToken(answer)
                  THEN /\ cookies' = CookiesSet(cookies, "token", answer.jwt)
                       /\ cookieWrites' = [cookieWrites EXCEPT ![r] = Count(@, 1)]
                       /\ hdr' = [hdr EXCEPT ![r] =
                                    RequestInterceptor(cookies', Bearer(answer.jwt))]
                       /\ replays' = [replays EXCEPT ![r] = Count(@, 1)]
                       /\ lastAns' = [lastAns EXCEPT ![r] = NilAnswer]
                       /\ pc' = [pc EXCEPT ![r] = "inflight"]
                       /\ UNCHANGED <<result, navs>>
                  ELSE /\ CatchRefreshError(r, NoNewTokenError)
                       /\ UNCHANGED <<hdr, replays, lastAns>>
             ELSE /\ CatchRefreshError(r, answer)
                  /\ UNCHANGED <<hdr, replays, lastAns>>
    /\ UNCHANGED refreshCalls
    /\ UNCHANGED <<guardVars, identityVars>>

\* ------------------------------------------------------------ route guard

PathChunks == {"/", "dashboard", "project-dockets", "datasets", "organizations", "x"}

\* Request paths: "/" followed by further chunks ("/dashboard", "/dashboardx",
\* "/dashboard/x", "/x/dashboard", ...).
RECURSIVE PathsOfLen(_)
PathsOfLen(n) ==
    IF n = 1 THEN { <<"/">> }
    ELSE { Append(p, c) : p \in PathsOfLen(n - 1), c \in PathChunks }

Paths == UNION { PathsOfLen(n) : n \in 1..MaxPathLen }

\* Values of the token cookie a request may carry.
TokenCookieValues == {Absent, "", "undefined", "t0"}

\* Variant: the commented-out "/organizations" entry of the list is live.
protectedRoutesWithOrganizations ==
    { <<"/", "dashboard">>, <<"/", "organizations">>, <<"/", "project-dockets">>,
      <<"/", "datasets">> }

\* const protectedRoutes = [...]
protectedRoutes ==
    { <<"/", "dashboard">>, <<"/", "project-dockets">>, <<"/", "datasets">> }

\* Variant: the route is compared with ===, not startsWith.
StartsWithExact(text, prefix) == text = prefix

\* String.prototype.startsWith
StartsWith(text, prefix) ==
    Len(prefix) <= Len(text) /\ SubSeq(text, 1, Len(prefix)) = prefix

\* `request.cookies.get("token")?.value || null`, Absent standing for null.
TokenOf(cookieValue) == IF Truthy(cookieValue) THEN cookieValue ELSE Absent

NoDecision == [kind |-> "none", target |-> <<>>]
Redirect(target) == [kind |-> "redirect", target |-> target]
PassThrough == [kind |-> "next", target |-> <<>>]

\* export function middleware(request)
middleware(pathname, cookieValue) ==
    LET token == TokenOf(cookieValue) IN
    IF (token = Absent \/ token = "undefined")
          /\ \E route \in protectedRoutes : StartsWith(pathname, route)
    THEN Redirect(<<"/">>)
    ELSE IF token # Absent /\ pathname = <<"/">>
         THEN Redirect(<<"/", "organizations">>)
         ELSE PassThrough

\* A request reaches the guard and is decided.
GuardDecide ==
    /\ gpc = "request"
    /\ gdecision' = middleware(gpath, gtoken)
    /\ gpc' = "decided"
    /\ UNCHANGED <<gpath, gtoken, ghops>>
    /\ UNCHANGED <<gatewayVars, identityVars>>

\* The browser follows a redirect: a new request for the target, same cookies.
GuardFollow ==
    /\ gpc = "decided"
    /\ gdecision.kind = "redirect"
    /\ gpath' = gdecision.target
    /\ ghops' = Count(ghops, 1)
    /\ gdecision' = NoDecision
    /\ gpc' = "request"
    /\ UNCHANGED gtoken
    /\ UNCHANGED <<gatewayVars, identityVars>>

\* -------------------------------------------------------- identity client
\* The second client of the repository (lib/apiClient.ts), on the same cookie jar.

\* What the identity backend may answer to the request.
IdentitySuccessAnswers == { Answer("success", 200, FALSE, <<>>, "b1", Absent) }

IdentityErrorAnswers ==
    { Answer("error", s, FALSE, <<>>, "", Absent) : s \in {401, 500} }
    \cup { Answer("network", 0, FALSE, <<>>, "", Absent) }

\* Request interceptor: config.headers['Authorization'] = `Bearer ${token}` if (token)
IdentityRequestInterceptor(jar, headers) ==
    IF Truthy(jar["token"]) THEN Bearer(jar["token"]) ELSE headers

\* error.response?.status === 401
IsUnauthorized(error) == ResponseStatus(error) = 401

\* api.get / post / put / delete: the request interceptor runs, the request is sent.
IdentitySend ==
    /\ ipc = "idle"
    /\ ihdr' = IdentityRequestInterceptor(cookies, NoHeader)
    /\ ipc' = "inflight"
    /\ UNCHANGED <<iresult, inavs>>
    /\ UNCHANGED <<gatewayVars, guardVars>>

\* (response) => response
IdentityFulfilled ==
    /\ ipc = "inflight"
    /\ \E response \in IdentitySuccessAnswers : iresult' = response
    /\ ipc' = "resolved"
    /\ UNCHANGED <<ihdr, inavs>>
    /\ UNCHANGED <<gatewayVars, guardVars>>

\* On 401: Cookie.remove('token') and Router.push('/login'); always reject(error).
IdentityRejected ==
    /\ ipc = "inflight"
    /\ \E error \in IdentityErrorAnswers :
          /\ iresult' = error
          /\ IF IsUnauthorized(error)
             THEN /\ cookies' = CookiesRemove(cookies, "token")
                  /\ inavs' = Count(inavs, 1)
             ELSE UNCHANGED <<cookies, inavs>>
    /\ ipc' = "rejected"
    /\ UNCHANGED ihdr
    /\ UNCHANGED <<pc, hdr, lastAns, lastRefresh, result, replays, refreshCalls, navs,
                   cookieWrites>>
    /\ UNCHANGED guardVars

\* --------------------------------------------------------- specifications

IdentityIdle ==
    /\ ipc = "idle"
    /\ ihdr = NoHeader
    /\ iresult = NilAnswer
    /\ inavs = 0

GatewayIdle ==
    /\ pc = [r \in Sends |-> "idle"]
    /\ hdr = [r \in Sends |-> NoHeader]
    /\ lastAns = [r \in Sends |-> NilAnswer]
    /\ lastRefresh = [r \in Sends |-> NilAnswer]
    /\ result = [r \in Sends |-> NilAnswer]
    /\ replays = [r \in Sends |-> 0]
    /\ refreshCalls = [r \in Sends |-> 0]
    /\ navs = [r \in Sends |-> 0]
    /\ cookieWrites = [r \in Sends |-> 0]

GuardIdle ==
    /\ gpc = "request"
    /\ gpath = <<"/">>
    /\ gtoken = Absent
    /\ gdecision = NoDecision
    /\ ghops = 0

\* The cookie jar as the (external) login flow, cookie expiry or a logout may
\* have left it when the first request is sent.
InitialJars ==
    { [n \in CookieNames |->
          CASE n = "token" -> t [] n = "refresh_token" -> rt [] OTHER -> u] :
      t \in {Absent, "t0"}, rt \in {Absent, "", "r0"}, u \in {Absent, "u0"} }

Init ==
    /\ cookies \in InitialJars
    /\ GatewayIdle
    /\ GuardIdle
    /\ IdentityIdle

Next ==
    \E r \in Sends :
        \/ Send(r)
        \/ ResponseFulfilled(r)
        \/ ResponseRejected(r)
        \/ RefreshSettled(r)

Spec == Init /\ [][Next]_vars

GuardInit ==
    /\ cookies = [n \in CookieNames |-> Absent]
    /\ GatewayIdle
    /\ IdentityIdle
    /\ gpc = "request"
    /\ gpath \in Paths
    /\ gtoken \in TokenCookieValues
    /\ gdecision = NoDecision
    /\ ghops = 0

GuardNext == GuardDecide \/ GuardFollow

GuardSpec == GuardInit /\ [][GuardNext]_vars

\* The store as the login flow leaves it: all three credentials present.
LoggedInJar ==
    [n \in CookieNames |->
        CASE n = "token" -> "t0" [] n = "refresh_token" -> "r0" [] OTHER -> "u0"]

\* A logged-in session: both clients send on the same cookie jar.
SessionInit ==
    /\ cookies = LoggedInJar
    /\ GatewayIdle
    /\ GuardIdle
    /\ IdentityIdle

SessionNext ==
    \/ Next
    \/ IdentitySend
    \/ IdentityFulfilled
    \/ IdentityRejected

SessionSpec == SessionInit /\ [][SessionNext]_vars

\* Fair scheduling of network replies: a dispatched request is eventually
\* answered (fulfilled or rejected) and a refreshToken() call eventually settles.
\* Nothing obliges a caller to send, nor the backend to choose a given answer.
RepliesArrive ==
    \A r \in Sends :
        /\ WF_vars(ResponseFulfilled(r) \/ ResponseRejected(r))
        /\ WF_vars(RefreshSettled(r))

FairSpec == SessionInit /\ [][Next]_vars /\ RepliesArrive

\* ------------------------------------------------ vocabulary of the claims

\* The answer carries the auth-failure marker in its message.
CarriesMarker(a) ==
    a.kind \in {"success", "error"} /\ a.hasMsg /\ Includes(a.msg, AuthFailureMarker)

\* The request failed: an error response or no response at all.
IsFailure(a) == a.kind \in {"error", "network"}

\* Refresh outcome Invalid: HTTP 400, or a message containing "Refresh token is invalid".
OutcomeInvalid(a) ==
    a.kind = "error"
    /\ (a.status = 400 \/ (a.hasMsg /\ Includes(a.msg, RefreshInvalidMarker)))

\* Refresh outcome TransientFailure: any other failure of the refresh call.
OutcomeTransient(a) == IsFailure(a) /\ ~OutcomeInvalid(a)

\* The refresh endpoint answered successfully without a usable jwtToken.
OutcomeMalformed(a) == a.kind = "success" /\ a.jwt \in {Absent, ""}

AllCookiesAbsent(jar) == \A n \in CookieNames : jar[n] = Absent

Settled(r) == pc[r] \in {"resolved", "rejected"}

\* The step in which send r handles the answer to a dispatched request.
AnswerHandled(r) == pc[r] = "inflight" /\ pc'[r] # "inflight"

\* The step in which send r handles the settling of its refresh call.
RefreshHandled(r) == pc[r] = "refreshing" /\ pc'[r] # "refreshing"

\* ----------------------------------------------------------------- claims

\* C1: one original request is re-dispatched at most once, whatever the server
\* answers: the number of replays of a send never exceeds 1.
C1_AtMostOneReplay == \A r \in Sends : replays[r] <= 1

\* C2: once a refresh has succeeded for a send, exactly one retried request is
\* issued, it carries `Bearer <new token>`, no further refresh is made for it, and
\* the caller receives the retried request's own outcome.
C2_OneReplayWithNewToken ==
    \A r \in Sends :
        replays[r] >= 1 =>
            /\ replays[r] = 1
            /\ refreshCalls[r] = 1
            /\ hdr[r] = Bearer(lastRefresh[r].jwt)
            /\ (Settled(r) => result[r] = lastAns[r])

\* C3: when the refresh call of a send is rejected as Invalid, then on completion
\* of that send the three credential cookies are absent, navigation to /login has
\* been triggered exactly once for the send, and the caller receives the refresh
\* failure.
C3_InvalidRefreshEvicts ==
    [][\A r \in Sends :
          (RefreshHandled(r) /\ OutcomeInvalid(lastRefresh'[r])) =>
              /\ pc'[r] = "rejected"
              /\ AllCookiesAbsent(cookies')
              /\ navs[r] = 0 /\ navs'[r] = 1
              /\ result'[r] = lastRefresh'[r]]_vars

C3_Witness ==
    \E r \in Sends :
        /\ pc[r] = "rejected"
        /\ OutcomeInvalid(lastRefresh[r])
        /\ result[r] = lastRefresh[r]
        /\ navs[r] = 1

\* C4: when a request fails with the auth-failure marker while refresh_token or
\* user_id is absent, the refresh endpoint is not called and the failure is
\* handled as Invalid: the three credential cookies are removed and navigation to
\* /login is triggered.
C4_MissingCredentialsEvict ==
    [][\A r \in Sends :
          (/\ AnswerHandled(r)
           /\ IsFailure(lastAns'[r]) /\ CarriesMarker(lastAns'[r])
           /\ (cookies["refresh_token"] = Absent \/ cookies["user_id"] = Absent)) =>
              /\ pc'[r] = "rejected"
              /\ refreshCalls'[r] = refreshCalls[r]
              /\ AllCookiesAbsent(cookies')
              /\ navs'[r] = navs[r] + 1]_vars

\* C5: a success answer without the auth-failure marker is returned to the caller
\* unchanged, with no refresh call, no navigation and no change of the cookies;
\* a send whose first answer is such a success has made none of them at all.
C5_SuccessPassesThrough ==
    [][\A r \in Sends :
          (/\ AnswerHandled(r)
           /\ lastAns'[r].kind = "success" /\ ~CarriesMarker(lastAns'[r])) =>
              /\ pc'[r] = "resolved"
              /\ result'[r] = lastAns'[r]
              /\ cookies' = cookies
              /\ refreshCalls'[r] = refreshCalls[r]
              /\ navs'[r] = navs[r]
              /\ cookieWrites'[r] = cookieWrites[r]
              /\ (replays[r] = 0 =>
                    refreshCalls'[r] = 0 /\ navs'[r] = 0 /\ cookieWrites'[r] = 0)]_vars

C5_Witness ==
    \E r \in Sends :
        /\ pc[r] = "resolved"
        /\ replays[r] = 0
        /\ lastAns[r].kind = "success" /\ ~CarriesMarker(lastAns[r])
        /\ result[r] = lastAns[r]
        /\ Truthy(cookies["token"])

\* C6: when the refresh call fails with a TransientFailure, the send rejects with
\* that refresh error, no cookie is removed, no navigation is triggered and the
\* original request is not replayed.
C6_TransientRefreshPropagates ==
    [][\A r \in Sends :
          (RefreshHandled(r) /\ OutcomeTransient(lastRefresh'[r])) =>
              /\ pc'[r] = "rejected"
              /\ result'[r] = lastRefresh'[r]
              /\ cookies' = cookies
              /\ cookieWrites'[r] = cookieWrites[r]
              /\ navs'[r] = navs[r]
              /\ replays'[r] = replays[r]]_vars

C6_Witness ==
    \E r \in Sends :
        /\ pc[r] = "rejected"
        /\ OutcomeTransient(lastRefresh[r])
        /\ lastRefresh[r].status = 500
        /\ result[r] = lastRefresh[r]
        /\ navs[r] = 0
        /\ Truthy(cookies["refresh_token"])

\* C7: when the refresh endpoint answers successfully without a usable jwtToken,
\* the outcome is handled as Invalid: the original request is not replayed, the
\* token cookie is not overwritten, and the credentials are purged with navigation
\* to /login.
C7_MalformedRefreshEvicts ==
    [][\A r \in Sends :
          (RefreshHandled(r) /\ OutcomeMalformed(lastRefresh'[r])) =>
              /\ pc'[r] = "rejected"
              /\ replays'[r] = replays[r]
              /\ AllCookiesAbsent(cookies')
              /\ navs'[r] = navs[r] + 1]_vars

\* C8: a failed request whose error does not carry the auth-failure marker is
\* rejected to the caller with the very same error, with no refresh call, no
\* replay, no change of the cookies and no navigation.
C8_OtherErrorsPassThrough ==
    [][\A r \in Sends :
          (/\ AnswerHandled(r)
           /\ IsFailure(lastAns'[r]) /\ ~CarriesMarker(lastAns'[r])) =>
              /\ pc'[r] = "rejected"
              /\ result'[r] = lastAns'[r]
              /\ cookies' = cookies
              /\ cookieWrites'[r] = cookieWrites[r]
              /\ refreshCalls'[r] = refreshCalls[r]
              /\ replays'[r] = replays[r]
              /\ navs'[r] = navs[r]]_vars

C8_Witness ==
    \E r \in Sends :
        /\ pc[r] = "rejected"
        /\ lastAns[r].kind = "error" /\ lastAns[r].status = 401
        /\ ~CarriesMarker(lastAns[r])
        /\ result[r] = lastAns[r]
        /\ refreshCalls[r] = 0

\* The reference decision of C9.  "No usable token": cookie absent, empty or the
\* literal "undefined".  "A token exists": the cookie has a non-empty value.
RefProtected(path) ==
    /\ Len(path) >= 2
    /\ path[1] = "/"
    /\ path[2] \in {"dashboard", "project-dockets", "datasets"}

RefNoUsableToken(t) == t \in {Absent, "", "undefined"}

RefTokenExists(t) == t \notin {Absent, ""}

RefDecision(path, t) ==
    IF RefProtected(path) /\ RefNoUsableToken(t)
    THEN Redirect(<<"/">>)
    ELSE IF RefTokenExists(t) /\ path = <<"/">>
         THEN Redirect(<<"/", "organizations">>)
         ELSE PassThrough

\* C9: for every path and token cookie value the guard decides as the reference:
\* protected prefix without usable token -> redirect to "/"; otherwise token
\* exists and path is exactly "/" -> redirect to "/organizations"; otherwise
\* pass through.
C9_GuardMatchesReference ==
    gpc = "decided" => gdecision = RefDecision(gpath, gtoken)

C9_Witness ==
    /\ gpc = "decided"
    /\ gtoken = "undefined"
    /\ gpath = <<"/", "dashboard", "x">>
    /\ gdecision = Redirect(<<"/">>)

\* C10: the guard's decision depends on the path and on whether a usable token
\* exists only: any token cookie value with the same usability as the request's
\* gets the same decision for the same path (so "/" with no cookie and "/" with
\* token = "undefined" are decided alike).
C10_DecisionByTokenPresence ==
    \A t \in TokenCookieValues :
        (gpc = "decided" /\ RefNoUsableToken(t) = RefNoUsableToken(gtoken)) =>
            middleware(gpath, t) = gdecision

\* C11: starting from a logged-in store, in every reachable state either token,
\* refresh_token and user_id are all present or token is absent (no send writes
\* token back after another send's purge has removed refresh_token and user_id).
C11_CredentialSetWhole ==
    \/ \A n \in CookieNames : cookies[n] # Absent
    \/ cookies["token"] = Absent

\* C12: under fair scheduling of network replies every send that has been
\* dispatched eventually settles (resolves or rejects), whatever the backend and
\* the refresh endpoint answer.
C12_EverySendSettles ==
    \A r \in Sends : (pc[r] = "inflight") ~> Settled(r)

\* Sends with a refreshToken() call in flight, and sends dispatched whose caller
\* has not been answered yet.
RefreshesInFlight == { r \in Sends : pc[r] = "refreshing" }

OutstandingSends == { r \in Sends : pc[r] # "idle" /\ result[r] = NilAnswer }

\* C13: concurrent sends are not serialized: every send that fails with the
\* marker gets its own refresh call, all of them can be in flight at once, each
\* successful one overwrites the token cookie whatever it holds (last writer
\* wins), and the refresh calls in flight never outnumber the outstanding sends.
C13_ConcurrentRefreshes ==
    /\ [](Cardinality(RefreshesInFlight) <= Cardinality(OutstandingSends))
    /\ [][\A r \in Sends :
            (/\ RefreshHandled(r)
             /\ lastRefresh'[r].kind = "success"
             /\ lastRefresh'[r].jwt \notin {Absent, ""}) =>
                /\ cookies'["token"] = lastRefresh'[r].jwt
                /\ pc'[r] = "inflight"]_vars

\* All sends have a refresh call in flight at once, after an earlier refresh of
\* one of them has already overwritten the token of the login.
C13_Witness ==
    /\ RefreshesInFlight = Sends
    /\ \A r \in Sends : refreshCalls[r] >= 1
    /\ \E r \in Sends : replays[r] >= 1
    /\ cookies["token"] \notin {Absent, "t0"}

\* C14: when the refresh has succeeded and the replayed request then fails with
\* HTTP 400 or any other error without the auth-failure marker, that failure is
\* rejected to the caller, no credential cookie is removed and no navigation to
\* /login is triggered: only the refresh call's own failure evicts.
C14_ReplayFailureDoesNotEvict ==
    [][\A r \in Sends :
          (/\ AnswerHandled(r)
           /\ replays[r] >= 1
           /\ IsFailure(lastAns'[r]) /\ ~CarriesMarker(lastAns'[r])) =>
              /\ pc'[r] = "rejected"
              /\ result'[r] = lastAns'[r]
              /\ cookies' = cookies
              /\ navs'[r] = navs[r]]_vars

C14_Witness ==
    \E r \in Sends :
        /\ pc[r] = "rejected"
        /\ replays[r] = 1
        /\ lastAns[r].kind = "error" /\ lastAns[r].status = 400
        /\ lastAns[r].hasMsg
        /\ result[r] = lastAns[r]
        /\ cookies["token"] = lastRefresh[r].jwt
        /\ cookies["refresh_token"] = "r0" /\ cookies["user_id"] = "u0"
        /\ navs[r] = 0

\* C15: redirects of the route guard never loop: from any path, with the token
\* cookie fixed, following the guard's redirects reaches a pass-through decision
\* after at most two redirects (a request that arrives after two redirects is
\* passed through).
C15_NoRedirectLoop ==
    (gpc = "decided" /\ ghops >= 2) => gdecision = PassThrough

C15_Witness ==
    /\ gpc = "decided"
    /\ ghops = 2
    /\ gtoken = "undefined"
    /\ gpath = <<"/", "organizations">>
    /\ gdecision = PassThrough

====
